---- MODULE Spec2Model ----
(***************************************************************************)
(* Model of picard-sozler-dimant.py: the lyrics selector                   *)
(* (choose_best_result) and the request/response glue around it            *)
(* (process_track, process_response) acting on the host's album counter    *)
(* and the track metadata.                                                 *)
(***************************************************************************)
EXTENDS Integers, Sequences, FiniteSets, TLC

VARIABLES
    results,          \* choose_best_result: the candidate list being scanned
    target_duration,  \* choose_best_result: the target duration argument
    idx,              \* choose_best_result: position of the for loop (1-based)
    slots,            \* choose_best_result: the four first-wins locals
    ret,              \* choose_best_result: the returned value
    pc,               \* choose_best_result: "idle" | "loop" | "done"
    metadata,         \* per track: the host's metadata dict
    status,           \* per track: "new" | "sent" | "pending" | "handled"
    album,            \* the host's album: _requests and _finalize_loading calls
    call              \* the arguments and pre-state of the last process_response

vars == <<results, target_duration, idx, slots, ret, pc,
          metadata, status, album, call>>
selVars == <<results, target_duration, idx, slots, ret, pc>>
glueVars == <<metadata, status, album, call>>

----------------------------------------------------------------------------
(* Bounds *)
MaxLen == 2       \* longest candidate list given to the selector pass
MaxData == 1      \* longest candidate list in a delivered response
MaxTracks == 2    \* tracks of the album

(* Program constant *)
DURATION_TOLERANCE == 2

----------------------------------------------------------------------------
(* Python values.  A dict is a function on the keys it has; None is a      *)
(* reserved string no lyrics text of the model is equal to.                *)
None == "None"
EmptyDict == <<>>
Has(d, k) == k \in DOMAIN d
GetItem(d, k, default) == IF Has(d, k) THEN d[k] ELSE default
SetItem(d, k, v) == [x \in DOMAIN d \cup {k} |-> IF x = k THEN v ELSE d[x]]
\* truthiness of a text-or-None value: None and "" are falsy
Truthy(v) == v # None /\ v # ""
\* truthiness of d.get(k) for a number-valued key: missing and 0 are falsy
TruthyNumber(d, k) == Has(d, k) /\ d[k] # 0
\* truthiness of d.get(k) for a bool-valued key: missing and False are falsy
TruthyFlag(d, k) == Has(d, k) /\ d[k] = TRUE
Abs(n) == IF n < 0 THEN -n ELSE n

----------------------------------------------------------------------------
(* choose_best_result *)

EmptySlots == [synced_duration_match |-> None, synced_any |-> None,
               plain_duration_match |-> None, plain_any |-> None]

\* lines 72-73: a truthy "instrumental" skips the candidate
IsSkipped_NeverSkips(result) == FALSE
IsSkipped(result) == TruthyFlag(result, "instrumental")

\* lines 79-82
DurationMatch_Strict(result, target) ==
    /\ TruthyNumber(result, "duration")
    /\ target # 0
    /\ Abs(result["duration"] - target) < DURATION_TOLERANCE
DurationMatch(result, target) ==
    /\ TruthyNumber(result, "duration")
    /\ target # 0
    /\ Abs(result["duration"] - target) <= DURATION_TOLERANCE

\* lines 84-88: if / elif on the two synced slots
SyncedSlots_Nested(s, synced, duration_match) ==
    IF ~Truthy(synced) THEN s
    ELSE IF duration_match
         THEN IF ~Truthy(s.synced_duration_match)
              THEN [s EXCEPT !.synced_duration_match = synced]
              ELSE s
         ELSE IF ~Truthy(s.synced_any)
              THEN [s EXCEPT !.synced_any = synced]
              ELSE s
SyncedSlots(s, synced, duration_match) ==
    IF ~Truthy(synced) THEN s
    ELSE IF duration_match /\ ~Truthy(s.synced_duration_match)
         THEN [s EXCEPT !.synced_duration_match = synced]
         ELSE IF ~Truthy(s.synced_any)
              THEN [s EXCEPT !.synced_any = synced]
              ELSE s

\* lines 90-94: if / elif on the two plain slots
PlainSlots_LastWins(s, plain, duration_match) ==
    IF ~Truthy(plain) THEN s
    ELSE IF duration_match
         THEN [s EXCEPT !.plain_duration_match = plain]
         ELSE [s EXCEPT !.plain_any = plain]
PlainSlots(s, plain, duration_match) ==
    IF ~Truthy(plain) THEN s
    ELSE IF duration_match /\ ~Truthy(s.plain_duration_match)
         THEN [s EXCEPT !.plain_duration_match = plain]
         ELSE IF ~Truthy(s.plain_any)
              THEN [s EXCEPT !.plain_any = plain]
              ELSE s

\* lines 71-94: the body of the for loop on one candidate
LoopBody(s, result, target) ==
    IF IsSkipped(result) THEN s
    ELSE LET synced == GetItem(result, "syncedLyrics", None)
             plain == GetItem(result, "plainLyrics", None)
             duration_match == DurationMatch(result, target)
         IN  PlainSlots(SyncedSlots(s, synced, duration_match),
                        plain, duration_match)

\* Python's "a or b": a if a is truthy, else b
Or(a, b) == IF Truthy(a) THEN a ELSE b

\* lines 96-101
ReturnValue_PlainMatchFirst(s) ==
    Or(s.synced_duration_match,
       Or(s.plain_duration_match, Or(s.synced_any, s.plain_any)))
ReturnValue(s) ==
    Or(s.synced_duration_match,
       Or(s.synced_any, Or(s.plain_duration_match, s.plain_any)))

RECURSIVE Scan(_, _, _, _)
Scan(s, rs, target, i) ==
    IF i > Len(rs) THEN s ELSE Scan(LoopBody(s, rs[i], target), rs, target, i + 1)

\* lines 55-101: the whole call
choose_best_result(rs, target) == ReturnValue(Scan(EmptySlots, rs, target, 1))

----------------------------------------------------------------------------
(* Inputs of the selector *)

SyncedText == <<"S1", "S2", "S3", "S4", "S5", "S6">>
PlainText == <<"P1", "P2", "P3", "P4", "P5", "P6">>
Durations == {0, 3, 6}
Targets == {0, 2, 5}

\* the candidates that may stand at position i; their texts name the position.
\* Both falsy forms of a field occur: a missing key (duration, syncedLyrics)
\* and a zero or empty value (duration 0, plainLyrics "").
CandidatesAt(i) ==
    { ("instrumental" :> b) @@ d @@ s @@ p :
        b \in BOOLEAN,
        d \in {EmptyDict} \cup {("duration" :> n) : n \in Durations},
        s \in {EmptyDict, "syncedLyrics" :> SyncedText[i]},
        p \in {"plainLyrics" :> "", "plainLyrics" :> PlainText[i]} }

RECURSIVE ListsOfLen(_)
ListsOfLen(n) ==
    IF n = 0 THEN {<<>>}
    ELSE {Append(l, c) : l \in ListsOfLen(n - 1), c \in CandidatesAt(n)}
ListsUpTo(n) == UNION {ListsOfLen(k) : k \in 0..n}

----------------------------------------------------------------------------
GlueIdle ==
    /\ metadata = <<>>
    /\ status = <<>>
    /\ album = [requests |-> 0, finalized |-> 0]
    /\ call = [track |-> 0]

InitSel ==
    /\ results \in ListsUpTo(MaxLen)
    /\ target_duration \in Targets
    /\ idx = 1
    /\ slots = EmptySlots
    /\ ret = None
    /\ pc = "loop"
    /\ GlueIdle

\* one iteration of the for loop that hits "continue"
LoopSkip ==
    /\ pc = "loop"
    /\ idx <= Len(results)
    /\ IsSkipped(results[idx])
    /\ slots' = LoopBody(slots, results[idx], target_duration)
    /\ idx' = idx + 1
    /\ UNCHANGED <<results, target_duration, ret, pc>>
    /\ UNCHANGED glueVars

\* one iteration of the for loop on a candidate that is considered
LoopVisit ==
    /\ pc = "loop"
    /\ idx <= Len(results)
    /\ ~IsSkipped(results[idx])
    /\ slots' = LoopBody(slots, results[idx], target_duration)
    /\ idx' = idx + 1
    /\ UNCHANGED <<results, target_duration, ret, pc>>
    /\ UNCHANGED glueVars

\* the return statement after the loop
Return ==
    /\ pc = "loop"
    /\ idx > Len(results)
    /\ ret' = ReturnValue(slots)
    /\ pc' = "done"
    /\ UNCHANGED <<results, target_duration, idx, slots>>
    /\ UNCHANGED glueVars

NextSel == LoopSkip \/ LoopVisit \/ Return
SpecSel == InitSel /\ [][NextSel]_vars

----------------------------------------------------------------------------
(* The "~length" string, a sequence of characters, and its parsing         *)

Digits == {"0", "1", "2", "3", "4", "5", "6", "7", "8", "9"}
DigitValue(c) == CHOOSE n \in 0..9 : ToString(n) = c

\* str.split(":")
RECURSIVE Split(_, _, _)
Split(str, i, part) ==
    IF i > Len(str) THEN <<part>>
    ELSE IF str[i] = ":" THEN <<part>> \o Split(str, i + 1, <<>>)
         ELSE Split(str, i + 1, Append(part, str[i]))

\* int(part) succeeds on a non-empty run of digits
IsInt(part) == Len(part) > 0 /\ \A i \in 1..Len(part) : part[i] \in Digits
RECURSIVE IntOf(_)
IntOf(part) ==
    IF Len(part) = 0 THEN 0
    ELSE 10 * IntOf(SubSeq(part, 1, Len(part) - 1)) + DigitValue(part[Len(part)])

\* lines 116-117: mins, secs = map(int, length.split(":")); mins * 60 + secs.
\* ok = FALSE stands for the ValueError of int() or of the unpacking.
ParseLength(str) ==
    LET parts == Split(str, 1, <<>>)
    IN  IF Len(parts) = 2 /\ IsInt(parts[1]) /\ IsInt(parts[2])
        THEN [ok |-> TRUE, value |-> IntOf(parts[1]) * 60 + IntOf(parts[2])]
        ELSE [ok |-> FALSE, value |-> 0]

\* the default of metadata.get("~length", "0:0")
DefaultLength == <<"0", ":", "0">>

----------------------------------------------------------------------------
(* process_response *)

\* lines 105-109: the transport error branch
ErrorBranch_NoRelease(a) == [a EXCEPT !.finalized = @ + 1]
ErrorBranch(a) == [requests |-> a.requests - 1, finalized |-> a.finalized + 1]

\* lines 112-126: the body of the try block, as the metadata it leaves.
\* A return or an exception inside it leaves the metadata as it was.
TryBody_AlwaysWrites(md, data) ==
    IF ~data.isList THEN md
    ELSE LET length == ParseLength(GetItem(md, "~length", DefaultLength))
         IN  IF ~length.ok THEN md
             ELSE SetItem(md, "lyrics",
                          choose_best_result(data.items, length.value))
TryBody(md, data) ==
    IF ~data.isList THEN md
    ELSE LET length == ParseLength(GetItem(md, "~length", DefaultLength))
         IN  IF ~length.ok THEN md
             ELSE LET lyrics == choose_best_result(data.items, length.value)
                  IN  IF Truthy(lyrics) THEN SetItem(md, "lyrics", lyrics)
                      ELSE md

\* lines 131-133: the finally block
FinallyBlock_ReleasesTwice(a) ==
    [requests |-> a.requests - 2, finalized |-> a.finalized + 1]
FinallyBlock(a) ==
    [requests |-> a.requests - 1, finalized |-> a.finalized + 1]

\* lines 111-133: try / except / finally.  The finally block runs on every
\* exit of the try block: the early return of line 114, an exception caught
\* by line 128, and the normal end.
TryStatement_ReturnSkipsFinally(a, md, data) ==
    IF ~data.isList
    THEN [metadata |-> md, album |-> a]
    ELSE [metadata |-> TryBody(md, data), album |-> FinallyBlock(a)]
TryStatement(a, md, data) ==
    [metadata |-> TryBody(md, data), album |-> FinallyBlock(a)]

\* the exit process_response takes on its arguments
Path(md, data, error) ==
    IF error THEN "error"
    ELSE IF ~data.isList THEN "notlist"
    ELSE LET length == ParseLength(GetItem(md, "~length", DefaultLength))
         IN  IF ~length.ok THEN "exception"
             ELSE IF Truthy(choose_best_result(data.items, length.value))
                  THEN "found"
                  ELSE "notfound"

\* lines 104-133: the host delivers the response of track t's request
process_response(t, data, error) ==
    /\ status[t] = "pending"
    /\ call' = [track |-> t, data |-> data, error |-> error,
                album |-> album, metadata |-> metadata[t]]
    /\ IF error
       THEN /\ album' = ErrorBranch(album)
            /\ UNCHANGED metadata
       ELSE LET after == TryStatement(album, metadata[t], data)
            IN  /\ metadata' = [metadata EXCEPT ![t] = after.metadata]
                /\ album' = after.album
    /\ status' = [status EXCEPT ![t] = "handled"]
    /\ UNCHANGED selVars

----------------------------------------------------------------------------
(* process_track *)

\* line 157
Increment(a) == [a EXCEPT !.requests = @ + 1]

\* lines 136-155: up to the hand-over of the request to the web service.
\* The duration computed in lines 137-141 is not used by the request.
process_track_get_url(t) ==
    /\ status[t] = "new"
    /\ status' = [status EXCEPT ![t] = "sent"]
    /\ UNCHANGED <<metadata, album, call>>
    /\ UNCHANGED selVars

\* line 157: the increment that follows the hand-over
process_track_increment(t) ==
    /\ status[t] = "sent"
    /\ album' = Increment(album)
    /\ status' = [status EXCEPT ![t] = "pending"]
    /\ UNCHANGED <<metadata, call>>
    /\ UNCHANGED selVars

----------------------------------------------------------------------------
(* Inputs of the glue *)

LengthStrings ==
    { <<"0", ":", "0", "5">>,        \* 5 seconds
      <<"1", ":", "0", "3">>,        \* 63 seconds
      <<"?", ":", "?", "?">>,        \* not a number
      <<"1", ":", "0", ":", "5">> }  \* three fields

\* metadata of a track before the plugin runs: "~length" missing or present,
\* "lyrics" missing or already set
TrackMetadatas ==
    { l @@ o : l \in {EmptyDict} \cup {("~length" :> x) : x \in LengthStrings},
               o \in {EmptyDict, "lyrics" :> "old"} }

NotAList == [isList |-> FALSE, items |-> <<>>]
ListData(n) == {[isList |-> TRUE, items |-> l] : l \in ListsUpTo(n)}

\* payloads of the single-track specification
TrackData == {NotAList} \cup ListData(MaxData)

\* payloads and metadata of the album specification
AlbumData ==
    { NotAList,
      [isList |-> TRUE, items |-> <<>>],
      [isList |-> TRUE,
       items |-> <<("instrumental" :> FALSE) @@ ("syncedLyrics" :> "S1")>>] }
AlbumMetadatas == {EmptyDict, "~length" :> <<"?", ":", "?", "?">>}

SelIdle ==
    /\ results = <<>>
    /\ target_duration = 0
    /\ idx = 1
    /\ slots = EmptySlots
    /\ ret = None
    /\ pc = "idle"

Tracks == DOMAIN status

InitTrack ==
    /\ metadata \in [1..1 -> TrackMetadatas]
    /\ status = [t \in 1..1 |-> "new"]
    /\ album = [requests |-> 0, finalized |-> 0]
    /\ call = [track |-> 0]
    /\ SelIdle

TrackGetUrl == \E t \in Tracks : process_track_get_url(t)
TrackIncrement == \E t \in Tracks : process_track_increment(t)
TrackResponse ==
    \E t \in Tracks, data \in TrackData, error \in BOOLEAN :
        process_response(t, data, error)

NextTrack == TrackGetUrl \/ TrackIncrement \/ TrackResponse
SpecTrack == InitTrack /\ [][NextTrack]_vars

InitAlbum ==
    /\ metadata \in [1..MaxTracks -> AlbumMetadatas]
    /\ status = [t \in 1..MaxTracks |-> "new"]
    /\ album = [requests |-> 0, finalized |-> 0]
    /\ call = [track |-> 0]
    /\ SelIdle

AlbumResponse ==
    \E t \in Tracks, data \in AlbumData, error \in BOOLEAN :
        process_response(t, data, error)

NextAlbum == TrackGetUrl \/ TrackIncrement \/ AlbumResponse
SpecAlbum == InitAlbum /\ [][NextAlbum]_vars

----------------------------------------------------------------------------
(* Properties of the request/response glue *)

Incremented == {t \in Tracks : status[t] \in {"pending", "handled"}}
Handled == {t \in Tracks : status[t] = "handled"}
InFlight == {t \in Tracks : status[t] = "pending"}
MidCall == {t \in Tracks : status[t] = "sent"}
Called == call.track # 0
CallPath == Path(call.metadata, call.data, call.error)

\* C1: the counter is incremented once per dispatched request and decremented
\* once per handled response on every path of process_response, "loading
\* finalized" is signalled once per handled response, and once every
\* dispatched request is answered the counter is back at its initial value 0.
C1_CounterBalanced ==
    /\ album.requests = Cardinality(Incremented) - Cardinality(Handled)
    /\ album.finalized = Cardinality(Handled)
    /\ (InFlight = {} /\ MidCall = {}) => album.requests = 0

C1_Witness ==
    /\ Handled = Tracks
    /\ album.requests = 0
    /\ album.finalized = Cardinality(Tracks)
    /\ Called
    /\ CallPath = "error"

\* the last call of process_response got a payload that is not a list, and
\* no transport error
NotListCall == Called /\ ~call.error /\ ~call.data.isList

\* C2 (as stated): on the non-list path the counter keeps the value it had
\* before the call.
C2_Original_CounterKept ==
    NotListCall => album.requests = call.album.requests

\* C2 (amended): on the non-list path process_response returns early without
\* writing metadata, and the finally block still releases the counter once
\* and signals "loading finalized" once.
C2_NotListReleases ==
    NotListCall =>
        /\ album.requests = call.album.requests - 1
        /\ album.finalized = call.album.finalized + 1
        /\ metadata[call.track] = call.metadata

C2_Witness ==
    /\ NotListCall
    /\ call.album.requests = 1
    /\ album.requests = 0

\* the "~length" of the metadata is present and is not minutes:seconds
MalformedLength(md) ==
    /\ Has(md, "~length")
    /\ LET parts == Split(md["~length"], 1, <<>>)
       IN  ~(Len(parts) = 2 /\ IsInt(parts[1]) /\ IsInt(parts[2]))

\* the metadata process_response leaves when the selector, run with the given
\* target, decides about the lyrics field
Selected(md, items, target) ==
    LET lyrics == choose_best_result(items, target)
    IN  IF Truthy(lyrics) THEN SetItem(md, "lyrics", lyrics) ELSE md

\* C3: with a malformed or missing length string the target is 0 and the
\* selector is still run; the text it returns is written to the lyrics field.
C3_MalformedLengthProceeds ==
    (/\ Called
     /\ ~call.error
     /\ call.data.isList
     /\ (~Has(call.metadata, "~length") \/ MalformedLength(call.metadata)))
    => metadata[call.track] = Selected(call.metadata, call.data.items, 0)

\* what the selector returns in the last call, None when it is not run
CallLyrics ==
    IF call.error \/ ~call.data.isList THEN None
    ELSE LET length == ParseLength(GetItem(call.metadata, "~length",
                                           DefaultLength))
         IN  IF length.ok
             THEN choose_best_result(call.data.items, length.value)
             ELSE None

\* C7: process_response leaves the metadata as it was on a transport error, a
\* non-list payload or a selector result of None; it writes the lyrics field
\* only when the selector returns text, and then with exactly that text.
C7_LyricsFrame ==
    Called =>
        IF Truthy(CallLyrics)
        THEN /\ Has(metadata[call.track], "lyrics")
             /\ metadata[call.track]["lyrics"] = CallLyrics
             /\ \A k \in DOMAIN call.metadata \ {"lyrics"} :
                    /\ Has(metadata[call.track], k)
                    /\ metadata[call.track][k] = call.metadata[k]
        ELSE metadata[call.track] = call.metadata

C7_Witness ==
    /\ Called
    /\ Has(call.metadata, "lyrics")
    /\ call.metadata["lyrics"] = "old"
    /\ metadata[call.track]["lyrics"] = "P1"
    /\ CallLyrics = "P1"

\* C10: process_track increments the counter after the hand-over to the web
\* service; with each response delivered after its process_track call has
\* returned, the counter is never negative and counts the dispatched
\* requests whose response is not handled yet.
C10_CounterIsInFlight ==
    /\ album.requests >= 0
    /\ album.requests = Cardinality(InFlight)
    /\ MidCall = {} =>
           album.requests = Cardinality({t \in Tracks : status[t] # "new"})
                            - Cardinality(Handled)

C10_Witness ==
    \E t, u \in Tracks :
        /\ status[t] = "handled"
        /\ status[u] = "pending"
        /\ album.requests = 1

----------------------------------------------------------------------------
(* Properties of the selector *)

Done == pc = "done"
Positions == 1..Len(results)
Synced(j) == GetItem(results[j], "syncedLyrics", None)
Plain(j) == GetItem(results[j], "plainLyrics", None)
IsConsidered(result) ==
    ~(Has(result, "instrumental") /\ result["instrumental"] = TRUE)
HasSynced(j) == IsConsidered(results[j]) /\ Truthy(Synced(j))
HasPlain(j) == IsConsidered(results[j]) /\ Truthy(Plain(j))

\* |duration - target| <= tolerance, for any duration the candidate carries
Close(j) ==
    /\ Has(results[j], "duration")
    /\ Abs(results[j]["duration"] - target_duration) <= DURATION_TOLERANCE

\* the duration match of the data model: both durations present and nonzero
Matches(j) ==
    /\ Close(j)
    /\ results[j]["duration"] # 0
    /\ target_duration # 0

First(S) == CHOOSE j \in S : \A k \in S : j <= k

\* C4: the result is the first non-empty slot in the order synced+match,
\* synced-any, plain+match, plain-any, and None when all four are empty;
\* a plain text is returned only if no considered candidate has synced text.
C4_Priority ==
    Done =>
        /\ ret = IF Truthy(slots.synced_duration_match)
                     THEN slots.synced_duration_match
                 ELSE IF Truthy(slots.synced_any)
                     THEN slots.synced_any
                 ELSE IF Truthy(slots.plain_duration_match)
                     THEN slots.plain_duration_match
                 ELSE IF Truthy(slots.plain_any)
                     THEN slots.plain_any
                 ELSE None
        /\ (\E j \in Positions : HasPlain(j) /\ ret = Plain(j))
               => ~\E j \in Positions : HasSynced(j)

C4_Witness ==
    /\ Done
    /\ Truthy(slots.plain_duration_match)
    /\ Truthy(slots.synced_any)
    /\ ~Truthy(slots.synced_duration_match)
    /\ ret = slots.synced_any

\* C5 (as stated): when exactly one considered candidate has synced text and
\* |duration - target| <= tolerance, target 0 and duration 0 included, its
\* synced text is returned.
C5_Original_CloseSynced ==
    LET S == {j \in Positions : HasSynced(j) /\ Close(j)}
    IN  (Done /\ Cardinality(S) = 1) => ret = Synced(First(S))

\* C5 (amended): when the target is nonzero and exactly one considered
\* candidate has synced text and a nonzero duration with
\* |duration - target| <= tolerance, its synced text is returned.
C5_MatchingSynced ==
    LET S == {j \in Positions : HasSynced(j) /\ Matches(j)}
    IN  (Done /\ Cardinality(S) = 1) => ret = Synced(First(S))

C5_Witness ==
    /\ Done
    /\ Len(results) = 2
    /\ HasSynced(1) /\ ~Matches(1)
    /\ HasSynced(2) /\ Matches(2)
    /\ ret = Synced(2)

\* C6: instrumental candidates never contribute: the result equals the result
\* for the list without them, and is None when no candidate is considered.
C6_InstrumentalIgnored ==
    Done =>
        /\ ret = choose_best_result(SelectSeq(results, IsConsidered),
                                    target_duration)
        /\ (\A j \in Positions : ~IsConsidered(results[j])) => ret = None

C6_Witness ==
    /\ Done
    /\ Len(results) = 2
    /\ ~IsConsidered(results[1]) /\ Truthy(Synced(1)) /\ Matches(1)
    /\ HasPlain(2) /\ ~HasSynced(2)
    /\ ret = Plain(2)

\* the loop is about to process a considered synced candidate whose duration
\* matches while synced_duration_match is already filled
LateSyncedMatch ==
    /\ pc = "loop"
    /\ idx <= Len(results)
    /\ HasSynced(idx)
    /\ Matches(idx)
    /\ Truthy(slots.synced_duration_match)

\* C8 (as stated): such a candidate is dropped, both synced slots stay as
\* they were.
C8_Original_Dropped ==
    [][LateSyncedMatch =>
          /\ slots'.synced_duration_match = slots.synced_duration_match
          /\ slots'.synced_any = slots.synced_any]_vars

\* C8 (amended): such a candidate leaves synced_duration_match as it was and
\* fills synced_any when that slot is still empty; it is dropped only when
\* synced_any is filled too.
C8_LateMatchFillsSyncedAny ==
    [][LateSyncedMatch =>
          /\ slots'.synced_duration_match = slots.synced_duration_match
          /\ slots'.synced_any = IF Truthy(slots.synced_any)
                                 THEN slots.synced_any
                                 ELSE Synced(idx)]_vars

C8_Witness ==
    /\ idx = 3
    /\ HasSynced(1) /\ Matches(1)
    /\ HasSynced(2) /\ Matches(2)
    /\ slots.synced_duration_match = Synced(1)
    /\ slots.synced_any = Synced(2)

\* the candidates that qualify for each slot when their turn comes
ForSyncedMatch(j) == HasSynced(j) /\ Matches(j)
ForSyncedAny(j) ==
    /\ HasSynced(j)
    /\ (~Matches(j) \/ \E i \in 1..(j - 1) : ForSyncedMatch(i))
ForPlainMatch(j) == HasPlain(j) /\ Matches(j)
ForPlainAny(j) ==
    /\ HasPlain(j)
    /\ (~Matches(j) \/ \E i \in 1..(j - 1) : ForPlainMatch(i))
Seen == 1..(idx - 1)

\* C9: first wins per bucket: at every point of the pass each slot is empty
\* or holds the text of the first candidate seen so far that qualified for
\* it, so a slot changes at most once and is never overwritten.
C9_FirstWins ==
    pc \in {"loop", "done"} =>
        LET SM == {j \in Seen : ForSyncedMatch(j)}
            SA == {j \in Seen : ForSyncedAny(j)}
            PM == {j \in Seen : ForPlainMatch(j)}
            PA == {j \in Seen : ForPlainAny(j)}
        IN  /\ slots.synced_duration_match =
                   IF SM = {} THEN None ELSE Synced(First(SM))
            /\ slots.synced_any =
                   IF SA = {} THEN None ELSE Synced(First(SA))
            /\ slots.plain_duration_match =
                   IF PM = {} THEN None ELSE Plain(First(PM))
            /\ slots.plain_any =
                   IF PA = {} THEN None ELSE Plain(First(PA))

C9_Witness ==
    /\ Done
    /\ Len(results) = 2
    /\ target_duration = 5
    /\ HasPlain(1) /\ Matches(1) /\ results[1]["duration"] = 3
    /\ HasPlain(2) /\ Matches(2) /\ results[2]["duration"] = 6
    /\ slots.plain_duration_match = Plain(1)
    /\ slots.plain_any = Plain(2)

====
